---- MODULE Spec2Model ----
(***************************************************************************)
(* Model of daemon_monitor.py: the one-shot pipeline                       *)
(*   connect -> gate -> health check -> (restart, reconnect, gate)         *)
(*   -> resolve -> settle -> start.                                        *)
(* The Docker daemon and systemd are the environment: every call to them   *)
(* returns one of the outcomes the client library can produce.             *)
(***************************************************************************)
EXTENDS Integers, Sequences, FiniteSets, TLC

\* ------------------------------------------------------------ bounds
\* longest list of --container options drawn
MaxExact == 2
\* longest list of --container-filter-name options drawn
MaxFilter == 1
\* largest 'Containers' count the daemon reports
MaxTotal == 1

\* --attempts-qty: choices=range(1,6)
MinAttempts == 1
MaxAttempts == 5

\* ------------------------------------------------------------ environment
\* Names are sequences of characters, so that a name filter can be matched.
web == <<"w","e","b">>
db == <<"d","b">>
api == <<"a","p","i">>

\* The containers that exist in the daemon, in the order it lists them.
DaemonOrder == << web, db >>

ContainerNames == { DaemonOrder[n] : n \in 1..Len(DaemonOrder) }

\* Values of --container that are drawn: the two containers and a name
\* that no container has.
ExactSelectors == ContainerNames \cup { api }

\* Values of --container-filter-name that are drawn.
FilterSelectors == { <<"w","e">>, <<"b">>, <<"x">> }

\* Sequences over S of length at most n.
SeqUpTo(S, n) == UNION { [1..m -> S] : m \in 0..n }

\* s contains sub as a contiguous chunk (the daemon's name filter).
Contains(sub, s) ==
    \E k \in 0..(Len(s) - Len(sub)) : SubSeq(s, k + 1, k + Len(sub)) = sub

\* Selection from a sequence, keeping order.
RECURSIVE SelectIn(_, _)
SelectIn(s, keep) ==
    IF s = <<>> THEN <<>>
    ELSE IF keep[Head(s)] THEN <<Head(s)>> \o SelectIn(Tail(s), keep)
         ELSE SelectIn(Tail(s), keep)

\* containers.list(all=True, filters={'name': f}): names of the matches.
ListByFilter(f) ==
    SelectIn(DaemonOrder, [n \in ContainerNames |-> Contains(f, n)])

\* ------------------------------------------------------------ state
VARIABLES
    pc,                 \* position in the script
    attempts_qty,       \* --attempts-qty
    check_list,         \* docker_container_check_list
    filter_list,        \* docker_container_filter_name_check_list
    call,               \* which connect_docker_service call is active (1, 2)
    i,                  \* index of the active retry loop (0 outside a loop)
    j,                  \* position in the list or dict being iterated
    version,            \* connect_docker_service: version
    docker_client,      \* "client" or "None"
    qty,                \* docker_container_qty
    running_qty,        \* docker_container_running_qty
    start_list,         \* docker_container_start_list (ordered dict)
    exit_status,        \* <<>> while running, <<code>> once the process ended
    \* observation of the run; the counters of a retry loop are cleared by
    \* the step that acts on the loop's result (Verify, HealthPost)
    rpc,                \* the collaborator call of the last step and its outcome
    log,                \* the log lines the last step emitted
    reqs,               \* calls made by the active retry loop
    sleeps,             \* time.sleep calls made by the active retry loop
    first,              \* first observation of the active retry loop
    obs,                \* set of observations of the active retry loop
    restarts,           \* origins of the restart_docker calls so far
    ops,                \* kinds of daemon calls made after the connection
    reloads,            \* per container: reload calls so far
    starts,             \* per container: start calls so far
    seen_running,       \* containers a reload reported as running
    returned,           \* <<kind, selector, name>> of each container a lookup returned
    failed_starts       \* containers whose start call raised APIError

vars == << pc, attempts_qty, check_list, filter_list, call, i, j, version,
           docker_client, qty, running_qty, start_list, exit_status,
           rpc, log, reqs, sleeps, first, obs, restarts, ops, reloads, starts,
           seen_running, returned, failed_starts >>

NoRpc == [op |-> "none", arg |-> <<>>, res |-> "none"]

Rpc(op, arg, res) == [op |-> op, arg |-> arg, res |-> res]

\* ------------------------------------------------------------ helpers
\* 'if version is not None' in place of 'if version'.
TruthyNotNone(v) == v # "None"

\* Python truthiness of the value get_docker_version returns.
Truthy(v) == v \notin {"None", ""}

\* get_docker_version: the version string, or None on any exception.
get_docker_version(res) ==
    CASE res = "ok"      -> "17.11.0"
      [] res = "empty"   -> ""
      [] res = "error"   -> "None"

\* A loop that already skips the sleep before its last iteration.
SleepAfterEarly(ix, n) == ix + 2 < n

\* A loop that sleeps after every failed iteration, the last one too.
SleepAfterAlways(ix, n) == TRUE

\* 'if i+1 < attempts_qty' before each sleep.
SleepAfter(ix, n) == ix + 1 < n

\* dict_remove_none
dict_remove_none(d) ==
    SelectSeq(d, LAMBDA e : e.v # "None")

\* A list of entries in place of a dict: every assignment appends.
DictSetAppend(d, k, v) == Append(d, [k |-> k, v |-> v])

\* d[k] = v on an ordered dict: replace in place, or append.
DictSet(d, k, v) ==
    IF \E n \in 1..Len(d) : d[n].k = k
    THEN [n \in 1..Len(d) |-> IF d[n].k = k THEN [k |-> k, v |-> v] ELSE d[n]]
    ELSE Append(d, [k |-> k, v |-> v])

\* An assignment after the loop over the matches: only the first is kept.
DictSetFirst(d, names) ==
    IF names = <<>> THEN d ELSE DictSet(d, Head(names), "container")

\* for v in containers: docker_container_start_list[v.name] = v
RECURSIVE DictSetAll(_, _)
DictSetAll(d, names) ==
    IF names = <<>> THEN d
    ELSE DictSetAll(DictSet(d, Head(names), "container"), Tail(names))

Keys(d) == [n \in 1..Len(d) |-> d[n].k]

KeySet(d) == { d[n].k : n \in 1..Len(d) }

\* ------------------------------------------------------------ initial state
Init ==
    /\ pc = "connect"
    /\ attempts_qty \in MinAttempts..MaxAttempts
    /\ check_list \in SeqUpTo(ExactSelectors, MaxExact)
    /\ filter_list \in SeqUpTo(FilterSelectors, MaxFilter)
    /\ call = 1
    /\ i = 0
    /\ j = 1
    /\ version = "None"
    /\ docker_client = "client"
    /\ qty = "None"
    /\ running_qty = "None"
    /\ start_list = <<>>
    /\ exit_status = <<>>
    /\ rpc = NoRpc
    /\ log = <<>>
    /\ reqs = 0
    /\ sleeps = 0
    /\ first = <<>>
    /\ obs = {}
    /\ restarts = <<>>
    /\ ops = {}
    /\ reloads = [n \in ContainerNames |-> 0]
    /\ starts = [n \in ContainerNames |-> 0]
    /\ seen_running = {}
    /\ returned = {}
    /\ failed_starts = {}

\* ------------------------------------------------------------ outcomes
\* Outcomes of client.version(): a version, an empty version, an exception.
VersionResults == {"ok", "empty", "error"}

\* Outcomes of RestartUnit over D-Bus.
RestartResults == {"ok", "dbus_error"}

\* Outcomes of docker_client.info(): the counts, or an APIError.
InfoResults == { c \in (0..MaxTotal) \X (0..MaxTotal) : c[2] <= c[1] }

\* Outcomes of containers.get, containers.list, reload and start.
GetResults == {"found", "not_found", "api_error"}
ListResults == {"ok", "api_error"}
ReloadResults == {"running", "exited", "api_error"}
StartResults == {"ok", "api_error"}

\* Exit status of exit() called with no argument.
ExitNoArg == 0
\* Exit status of the interpreter after an uncaught exception.
ExitUncaught == 1
\* Exit status when the script runs off its end.
ExitEnd == 0

\* ------------------------------------------------------------ log lines
LogLine(level, text, arg) == <<level, text, arg>>

\* restart_docker: the lines it logs for an outcome of RestartUnit.
restart_docker(res) ==
    << LogLine("info", "Restarting Docker service", <<>>) >> \o
    ( IF res = "dbus_error"
      THEN << LogLine("error", "Can't restart Docker", <<>>) >>
      ELSE <<>> )

\* What a retry loop logs before sleeping, and whether it sleeps.
RetryLog(text, ix, n) ==
    IF SleepAfter(ix, n) THEN << LogLine("info", text, <<>>) >> ELSE <<>>

\* ------------------------------------------------------------ connect
\* One iteration of the loop of connect_docker_service.
ConnectAttempt ==
    /\ pc = "connect"
    /\ i < attempts_qty
    /\ \E res \in VersionResults :
        LET v == get_docker_version(res) IN
        /\ version' = v
        /\ rpc' = Rpc("version", <<>>, res)
        /\ reqs' = reqs + 1
        /\ first' = IF reqs = 0 THEN <<res>> ELSE first
        /\ obs' = obs \cup {res}
        /\ IF Truthy(v)
           THEN /\ pc' = "connect_ret"
                /\ log' = <<>>
                /\ UNCHANGED << i, sleeps >>
           ELSE /\ log' = << LogLine("warn", "Can't get Docker version", <<>>) >>
                           \o RetryLog("Retry in", i, attempts_qty)
                /\ sleeps' = IF SleepAfter(i, attempts_qty) THEN sleeps + 1 ELSE sleeps
                /\ IF i + 1 < attempts_qty
                   THEN /\ i' = i + 1
                        /\ pc' = "connect"
                   ELSE /\ i' = i
                        /\ pc' = "connect_ret"
    /\ UNCHANGED << attempts_qty, check_list, filter_list, call, j, docker_client,
                    qty, running_qty, start_list, exit_status, restarts, ops,
                    reloads, starts, seen_running, returned, failed_starts >>

\* The end of connect_docker_service: the handle, or None.
ConnectReturn ==
    /\ pc = "connect_ret"
    /\ IF Truthy(version)
       THEN /\ docker_client' = "client"
            /\ log' = << LogLine("info", "Docker version", <<>>) >>
       ELSE /\ docker_client' = "None"
            /\ log' = << LogLine("error", "Can't get Docker version", <<>>) >>
    /\ pc' = "verify"
    /\ rpc' = NoRpc
    /\ UNCHANGED << attempts_qty, check_list, filter_list, call, i, j, version,
                    qty, running_qty, start_list, exit_status, reqs, sleeps,
                    first, obs, restarts, ops, reloads, starts, seen_running, returned, failed_starts >>

\* Both gates called with restart=True.
GateRestartAlways(c) == TRUE

\* Both gates called with the default restart=False.
GateRestartNever(c) == FALSE

\* The restart argument of the verify_docker_client call after connect c.
GateRestart(c) == c = 1

\* A gate whose test never finds the handle missing.
AbsentNever(client) == FALSE

\* 'if not client' of verify_docker_client.
Absent(client) == client = "None"

\* verify_docker_client(docker_client, restart)
Verify ==
    /\ pc = "verify"
    /\ IF Absent(docker_client)
       THEN /\ IF GateRestart(call)
               THEN \E res \in RestartResults :
                     /\ rpc' = Rpc("restart", <<>>, res)
                     /\ log' = << LogLine("error", "Docker service is not available => exit and restart service", <<>>) >>
                               \o restart_docker(res)
                     /\ restarts' = Append(restarts, "gate")
               ELSE /\ rpc' = NoRpc
                    /\ log' = << LogLine("error", "Docker service is not available => exit", <<>>) >>
                    /\ UNCHANGED restarts
            /\ pc' = "exited"
            /\ exit_status' = << ExitNoArg >>
            /\ UNCHANGED << i, j, version, reqs, sleeps, first, obs >>
       ELSE /\ pc' = IF call = 1 THEN "health" ELSE "resolve_exact"
            /\ rpc' = NoRpc
            /\ log' = <<>>
            /\ i' = 0
            /\ j' = 1
            /\ version' = "None"
            /\ reqs' = 0
            /\ sleeps' = 0
            /\ first' = <<>>
            /\ obs' = {}
            /\ UNCHANGED << exit_status, restarts >>
    /\ UNCHANGED << attempts_qty, check_list, filter_list, call, docker_client,
                    qty, running_qty, start_list, ops, reloads, starts,
                    seen_running, returned, failed_starts >>

\* ------------------------------------------------------------ health check
\* A break condition without the 'docker_container_qty == 0' case.
HealthyRunningOnly(t, r) == t > 0 /\ r > 0

\* The break condition of the health loop.
Healthy(t, r) == t = 0 \/ (t > 0 /\ r > 0)

\* A restart condition that ignores the total: also taken with no containers.
RestartNeededAny(t, r) == r = 0

\* A restart condition that is never met.
RestartNeededNever(t, r) == FALSE

\* The condition of the restart after the health loop.
RestartNeeded(t, r) == t > 0 /\ r = 0

\* One iteration of the health loop, docker_client.info() raising.
HealthRaise ==
    /\ pc = "health"
    /\ i < attempts_qty
    /\ rpc' = Rpc("info", <<>>, "api_error")
    /\ ops' = ops \cup {"info"}
    /\ reqs' = reqs + 1
    /\ log' = <<>>
    /\ pc' = "crashed"
    /\ exit_status' = << ExitUncaught >>
    /\ UNCHANGED << attempts_qty, check_list, filter_list, call, i, j, version,
                    docker_client, qty, running_qty, start_list, sleeps, first,
                    obs, restarts, reloads, starts, seen_running, returned, failed_starts >>

\* One iteration of the health loop, docker_client.info() returning counts.
HealthIter ==
    /\ pc = "health"
    /\ i < attempts_qty
    /\ \E c \in InfoResults :
        /\ qty' = c[1]
        /\ running_qty' = c[2]
        /\ rpc' = Rpc("info", <<>>, c)
        /\ ops' = ops \cup {"info"}
        /\ reqs' = reqs + 1
        /\ first' = IF reqs = 0 THEN c ELSE first
        /\ obs' = obs \cup {c}
        /\ IF Healthy(c[1], c[2])
           THEN /\ pc' = "health_post"
                /\ log' = << LogLine("info", "Containers info", c) >>
                /\ UNCHANGED << i, sleeps >>
           ELSE /\ log' = << LogLine("info", "Containers info", c),
                             LogLine("warn", "Docker has zero qty of running containers", <<>>) >>
                           \o RetryLog("Wait for", i, attempts_qty)
                /\ sleeps' = IF SleepAfter(i, attempts_qty) THEN sleeps + 1 ELSE sleeps
                /\ IF i + 1 < attempts_qty
                   THEN /\ i' = i + 1
                        /\ pc' = "health"
                   ELSE /\ i' = i
                        /\ pc' = "health_post"
    /\ UNCHANGED << attempts_qty, check_list, filter_list, call, j, version,
                    docker_client, start_list, exit_status, restarts, reloads,
                    starts, seen_running, returned, failed_starts >>

\* After the health loop: restart and reconnect, or go on to resolution.
HealthPost ==
    /\ pc = "health_post"
    /\ IF RestartNeeded(qty, running_qty)
       THEN \E res \in RestartResults :
             /\ rpc' = Rpc("restart", <<>>, res)
             /\ log' = << LogLine("error", "Docker failed to start containers", <<>>) >>
                       \o restart_docker(res)
             /\ restarts' = Append(restarts, "health")
             /\ pc' = "connect"
             /\ call' = 2
       ELSE /\ rpc' = NoRpc
            /\ log' = <<>>
            /\ pc' = "resolve_exact"
            /\ UNCHANGED << restarts, call >>
    /\ i' = 0
    /\ j' = 1
    /\ reqs' = 0
    /\ sleeps' = 0
    /\ first' = <<>>
    /\ obs' = {}
    /\ UNCHANGED << attempts_qty, check_list, filter_list, version, docker_client,
                    qty, running_qty, start_list, exit_status, ops, reloads,
                    starts, seen_running, returned, failed_starts >>

\* ------------------------------------------------------------ resolution
\* One iteration of the loop over docker_container_check_list.
ResolveExact ==
    /\ pc = "resolve_exact"
    /\ j <= Len(check_list)
    /\ LET name == check_list[j] IN
       \E res \in GetResults :
        /\ res = "found" => name \in ContainerNames
        /\ res = "not_found" => name \notin ContainerNames
        /\ rpc' = Rpc("get", name, res)
        /\ returned' = IF res = "found"
                       THEN returned \cup {<<"exact", name, name>>}
                       ELSE returned
        /\ start_list' = IF res = "found"
                         THEN DictSet(start_list, name, "container")
                         ELSE start_list
        /\ log' = CASE res = "found" -> <<>>
                    [] res = "not_found" ->
                        << LogLine("warn", "Docker container is not found => skip", name) >>
                    [] res = "api_error" ->
                        << LogLine("error", "Can't get Docker container", name) >>
    /\ ops' = ops \cup {"get"}
    /\ j' = j + 1
    /\ UNCHANGED << pc, attempts_qty, check_list, filter_list, call, i, version,
                    docker_client, qty, running_qty, exit_status, reqs, sleeps,
                    first, obs, restarts, reloads, starts, seen_running, failed_starts >>

\* The loop over docker_container_check_list is exhausted.
ResolveExactEnd ==
    /\ pc = "resolve_exact"
    /\ j > Len(check_list)
    /\ pc' = "resolve_filter"
    /\ j' = 1
    /\ rpc' = NoRpc
    /\ log' = <<>>
    /\ UNCHANGED << attempts_qty, check_list, filter_list, call, i, version,
                    docker_client, qty, running_qty, start_list, exit_status,
                    reqs, sleeps, first, obs, restarts, ops, reloads, starts,
                    seen_running, returned, failed_starts >>

\* One iteration of the loop over docker_container_filter_name_check_list.
ResolveFilter ==
    /\ pc = "resolve_filter"
    /\ j <= Len(filter_list)
    /\ LET f == filter_list[j]
           containers == ListByFilter(f) IN
       \E res \in ListResults :
        /\ rpc' = Rpc("list", f, res)
        /\ returned' = IF res = "ok"
                       THEN returned \cup
                            { <<"filter", f, containers[n]>> : n \in 1..Len(containers) }
                       ELSE returned
        /\ start_list' = IF res = "ok"
                         THEN DictSetAll(start_list, containers)
                         ELSE start_list
        /\ log' = CASE res = "ok" /\ Len(containers) = 0 ->
                        << LogLine("warn", "Docker containers are not found => skip", f) >>
                    [] res = "ok" /\ Len(containers) # 0 -> <<>>
                    [] res = "api_error" ->
                        << LogLine("error", "Can't get Docker containers list", f) >>
    /\ ops' = ops \cup {"list"}
    /\ j' = j + 1
    /\ UNCHANGED << pc, attempts_qty, check_list, filter_list, call, i, version,
                    docker_client, qty, running_qty, exit_status, reqs, sleeps,
                    first, obs, restarts, reloads, starts, seen_running, failed_starts >>

\* A settle loop that runs one iteration more.
SettleRangeLong(n, d) == IF Len(d) > 0 THEN n + 1 ELSE 0

\* A settle loop that runs one iteration short.
SettleRangeShort(n, d) == IF Len(d) > 0 THEN n - 1 ELSE 0

\* A settle loop without the check for an empty list.
SettleRangeAlways(n, d) == n

\* The number of settle iterations: range(0, attempts_qty if len(d)>0 else 0).
SettleRange(n, d) == IF Len(d) > 0 THEN n ELSE 0

\* After the filter loop: clean-up of the list, and entry to the settle loop.
ResolveClean ==
    /\ pc = "resolve_filter"
    /\ j > Len(filter_list)
    /\ LET d == dict_remove_none(start_list) IN
        /\ start_list' = d
        /\ log' = << LogLine("info", "Monitored containers", Keys(d)) >>
        /\ pc' = IF 0 < SettleRange(attempts_qty, d) THEN "settle" ELSE "start"
    /\ i' = 0
    /\ j' = 1
    /\ rpc' = NoRpc
    /\ UNCHANGED << attempts_qty, check_list, filter_list, call, version,
                    docker_client, qty, running_qty, exit_status, reqs, sleeps,
                    first, obs, restarts, ops, reloads, starts, seen_running, returned, failed_starts >>

\* ------------------------------------------------------------ settle
\* A settle loop with the status test inverted.
AfterReloadInverted(d, n, status) ==
    IF status # "running"
    THEN [d EXCEPT ![n] = [k |-> d[n].k, v |-> "None"]]
    ELSE d

\* A settle loop that leaves running containers in the dict.
AfterReloadKeep(d, n, status) == d

\* The dict after reload reported a status for entry n.
AfterReload(d, n, status) ==
    IF status = "running"
    THEN [d EXCEPT ![n] = [k |-> d[n].k, v |-> "None"]]
    ELSE d

\* One iteration of the inner loop of the settle phase, v.reload() raising.
SettleRaise ==
    /\ pc = "settle"
    /\ j <= Len(start_list)
    /\ LET name == start_list[j].k IN
        /\ rpc' = Rpc("reload", name, "api_error")
        /\ reloads' = [reloads EXCEPT ![name] = @ + 1]
    /\ ops' = ops \cup {"reload"}
    /\ log' = <<>>
    /\ pc' = "crashed"
    /\ exit_status' = << ExitUncaught >>
    /\ UNCHANGED << attempts_qty, check_list, filter_list, call, i, j, version,
                    docker_client, qty, running_qty, start_list, reqs, sleeps,
                    first, obs, restarts, starts, seen_running, returned, failed_starts >>

\* One iteration of the inner loop of the settle phase.
SettleReload ==
    /\ pc = "settle"
    /\ j <= Len(start_list)
    /\ LET name == start_list[j].k IN
       \E status \in ReloadResults \ {"api_error"} :
        /\ rpc' = Rpc("reload", name, status)
        /\ reloads' = [reloads EXCEPT ![name] = @ + 1]
        /\ seen_running' = IF status = "running"
                           THEN seen_running \cup {name}
                           ELSE seen_running
        /\ start_list' = AfterReload(start_list, j, status)
    /\ ops' = ops \cup {"reload"}
    /\ log' = <<>>
    /\ j' = j + 1
    /\ UNCHANGED << pc, attempts_qty, check_list, filter_list, call, i, version,
                    docker_client, qty, running_qty, exit_status, reqs, sleeps,
                    first, obs, restarts, starts, returned, failed_starts >>

\* The rest of a settle iteration: clean-up, size check, log and sleep.
SettleClean ==
    /\ pc = "settle"
    /\ j > Len(start_list)
    /\ LET d == dict_remove_none(start_list) IN
        /\ start_list' = d
        /\ reqs' = reqs + 1
        /\ IF Len(d) = 0
           THEN /\ pc' = "start"
                /\ log' = <<>>
                /\ i' = 0
                /\ UNCHANGED sleeps
           ELSE /\ log' = << LogLine("info", "Found not running containers", Keys(d)) >>
                           \o RetryLog("Wait for", i, attempts_qty)
                /\ sleeps' = IF SleepAfter(i, attempts_qty) THEN sleeps + 1 ELSE sleeps
                \* d is not empty here, as it was when the range was taken
                /\ IF i + 1 < SettleRange(attempts_qty, d)
                   THEN /\ i' = i + 1
                        /\ pc' = "settle"
                   ELSE /\ i' = 0
                        /\ pc' = "start"
    /\ j' = 1
    /\ rpc' = NoRpc
    /\ UNCHANGED << attempts_qty, check_list, filter_list, call, version,
                    docker_client, qty, running_qty, exit_status, first, obs,
                    restarts, ops, reloads, starts, seen_running, returned, failed_starts >>

\* ------------------------------------------------------------ start
\* A start loop without the try/except: APIError ends the script.
AfterStartUncaught(res) == IF res = "api_error" THEN "crashed" ELSE "start"

\* Where the start loop goes after v.start(): APIError is caught and logged.
AfterStart(res) == "start"

\* One iteration of the start loop.
StartOne ==
    /\ pc = "start"
    /\ j <= Len(start_list)
    /\ LET name == start_list[j].k IN
       \E res \in StartResults :
        /\ rpc' = Rpc("start", name, res)
        /\ starts' = [starts EXCEPT ![name] = @ + 1]
        /\ failed_starts' = IF res = "api_error"
                            THEN failed_starts \cup {name}
                            ELSE failed_starts
        /\ pc' = AfterStart(res)
        /\ log' = << LogLine("info", "Starting container", name) >> \o
                  ( IF res = "api_error"
                    THEN << LogLine("error", "Can't start container", name) >>
                    ELSE <<>> )
    /\ ops' = ops \cup {"start"}
    /\ j' = j + 1
    /\ UNCHANGED << attempts_qty, check_list, filter_list, call, i, version,
                    docker_client, qty, running_qty, start_list, exit_status,
                    reqs, sleeps, first, obs, restarts, reloads, seen_running,
                    returned >>

\* The script runs off its end.
Finish ==
    /\ pc = "start"
    /\ j > Len(start_list)
    /\ pc' = "finished"
    /\ exit_status' = << ExitEnd >>
    /\ rpc' = NoRpc
    /\ log' = <<>>
    /\ UNCHANGED << attempts_qty, check_list, filter_list, call, i, j, version,
                    docker_client, qty, running_qty, start_list, reqs, sleeps,
                    first, obs, restarts, ops, reloads, starts, seen_running, returned, failed_starts >>

\* ------------------------------------------------------------ specification
Next ==
    \/ ConnectAttempt
    \/ ConnectReturn
    \/ Verify
    \/ HealthRaise
    \/ HealthIter
    \/ HealthPost
    \/ ResolveExact
    \/ ResolveExactEnd
    \/ ResolveFilter
    \/ ResolveClean
    \/ SettleRaise
    \/ SettleReload
    \/ SettleClean
    \/ StartOne
    \/ Finish

Spec == Init /\ [][Next]_vars

Terminated == pc \in {"exited", "crashed", "finished"}

TypeOK ==
    /\ pc \in {"connect", "connect_ret", "verify", "health", "health_post",
               "resolve_exact", "resolve_filter", "settle", "start",
               "exited", "crashed", "finished"}
    /\ attempts_qty \in MinAttempts..MaxAttempts
    /\ call \in 1..2
    /\ i \in 0..(attempts_qty - 1)
    /\ docker_client \in {"client", "None"}
    /\ exit_status \in {<<>>, <<0>>, <<1>>}
    /\ Terminated <=> exit_status # <<>>
    /\ Len(restarts) <= 2

\* ------------------------------------------------------------ properties
Range(q) == { q[n] : n \in 1..Len(q) }

Min(a, b) == IF a < b THEN a ELSE b

\* An observation of the health loop with containers and none running.
Unhealthy(c) == c[1] > 0 /\ c[2] = 0

\* The names in docker_container_start_list whose value is not None.
TargetSet == { start_list[n].k : n \in { m \in 1..Len(start_list) : start_list[m].v # "None" } }

\* The containers some lookup returned.
Resolved == { t[3] : t \in returned }

\* C1: a connect in which every version request fails (exception or empty
\* version) makes exactly attempts_qty requests, sleeps exactly
\* attempts_qty - 1 times (after every failed request but the last) and
\* returns None.
C1_ConnectAllFail ==
    /\ (pc \in {"connect", "connect_ret"} /\ "ok" \notin obs) =>
          /\ reqs <= attempts_qty
          /\ sleeps = Min(reqs, attempts_qty - 1)
    /\ (pc \in {"verify", "exited"} /\ "ok" \notin obs) =>
          /\ reqs = attempts_qty
          /\ sleeps = attempts_qty - 1
          /\ docker_client = "None"

C1_Witness ==
    /\ pc = "verify"
    /\ obs = {"empty", "error"}
    /\ attempts_qty = 4
    /\ reqs = 4
    /\ sleeps = 3
    /\ docker_client = "None"

\* C2: when all attempts_qty iterations of the health loop observe
\* total > 0 and running = 0, restart_docker is called once, from the health
\* path; for the rest of the run that stays the only restart, and when the
\* reconnect returns None the second gate ends the process with no restart.
C2_RestartOnce ==
    /\ [][ (pc = "health_post" /\ reqs = attempts_qty /\ \A c \in obs : Unhealthy(c))
             => (restarts' = <<"health">> /\ rpc'.op = "restart" /\ call' = 2) ]_vars
    /\ [][ (pc = "verify" /\ call = 2 /\ docker_client = "None")
             => (pc' = "exited" /\ restarts' = restarts /\ rpc'.op # "restart") ]_vars
    /\ [](call = 2 => restarts = <<"health">>)

C2_Witness ==
    /\ pc = "exited"
    /\ call = 2
    /\ docker_client = "None"
    /\ restarts = <<"health">>
    /\ attempts_qty = 3

\* C3: a process that ends at a gate because it has no handle ends with a
\* non-zero exit status, and a run that reaches the end of the start phase
\* ends with exit status zero.
C3_ExitStatus ==
    /\ pc = "exited" => exit_status # <<0>>
    /\ pc = "finished" => exit_status = <<0>>

\* C4: when the first connect returns None, the first gate calls
\* restart_docker once and the process ends there: no further version
\* request, no daemon call of the later phases, nothing resolved.
C4_GateAfterInitialConnect ==
    (call = 1 /\ docker_client = "None") =>
        /\ pc \in {"verify", "exited"}
        /\ reqs = attempts_qty
        /\ ops = {}
        /\ returned = {}
        /\ start_list = <<>>
        /\ pc = "verify" => restarts = <<>>
        /\ pc = "exited" =>
              /\ restarts = <<"gate">>
              /\ rpc.op = "restart"
              /\ ~ ENABLED Next

C4_Witness ==
    /\ pc = "exited"
    /\ call = 1
    /\ restarts = <<"gate">>
    /\ attempts_qty = 2
    /\ reqs = 2

\* C5: when the first info query of the health loop reports total = 0, the
\* loop ends after that one query with no sleep, for every attempts_qty, and
\* the step after the loop goes on to resolution without a restart.
C5_ZeroTotalStops ==
    /\ []( (pc \in {"health", "health_post"} /\ first # <<>> /\ first[1] = 0)
             => (pc = "health_post" /\ reqs = 1 /\ sleeps = 0 /\ restarts = <<>>) )
    /\ [][ (pc = "health_post" /\ first[1] = 0)
             => (pc' = "resolve_exact" /\ restarts' = restarts /\ rpc'.op # "restart") ]_vars

C5_Witness ==
    /\ pc = "health_post"
    /\ first = <<0, 0>>
    /\ attempts_qty = 5
    /\ reqs = 1
    /\ sleeps = 0

\* The settle iterations begun so far (reqs counts the completed ones).
SettleBegun == IF pc \in {"settle", "crashed"} THEN reqs + 1 ELSE reqs

\* C6: docker_container_start_list never holds two entries with one name,
\* however many selectors returned that container; so no container is
\* reloaded more than once per settle iteration or started more than once.
C6_OneEntryPerName ==
    /\ \A m, n \in 1..Len(start_list) :
          start_list[m].k = start_list[n].k => m = n
    /\ \A c \in ContainerNames :
          /\ reloads[c] <= SettleBegun
          /\ starts[c] <= 1

C6_Witness ==
    /\ pc = "finished"
    /\ <<"exact", web, web>> \in returned
    /\ <<"filter", <<"w","e">>, web>> \in returned
    /\ Keys(start_list) = <<web>>
    /\ attempts_qty = 2
    /\ reloads[web] = 2
    /\ starts[web] = 1

\* C7: a container that a reload of the settle phase reported as running is
\* out of the target set at once, is gone from the dict when the next
\* iteration or the start phase begins, is never reloaded again and is never
\* started.
C7_RunningIsDropped ==
    /\ []( \A c \in seen_running :
              /\ c \notin TargetSet
              /\ starts[c] = 0
              /\ (pc \in {"start", "finished"} \/ (pc = "settle" /\ j = 1))
                    => c \notin KeySet(start_list) )
    /\ [][ \A c \in seen_running :
              reloads'[c] = reloads[c] /\ starts'[c] = starts[c] ]_vars

C7_Witness ==
    /\ pc = "finished"
    /\ attempts_qty = 3
    /\ Resolved = {web, db}
    /\ seen_running = {web}
    /\ reloads[web] = 2
    /\ reloads[db] = 3
    /\ starts[web] = 0
    /\ starts[db] = 1

\* C8: at the end of the run every container left in the dict after the
\* settle phase was started exactly once and no other container was
\* started; a resolved container that no reload reported as running was
\* reloaded attempts_qty times and started once.
C8_StartsAfterSettle ==
    /\ pc = "start" =>
          /\ \A m \in 1..Len(start_list) :
                starts[start_list[m].k] = IF m < j THEN 1 ELSE 0
          /\ \A c \in ContainerNames \ KeySet(start_list) : starts[c] = 0
    /\ pc = "finished" =>
          /\ \A c \in ContainerNames :
                starts[c] = IF c \in KeySet(start_list) THEN 1 ELSE 0
          /\ \A c \in Resolved \ seen_running :
                /\ c \in KeySet(start_list)
                /\ reloads[c] = attempts_qty
                /\ starts[c] = 1

C8_Witness ==
    /\ pc = "finished"
    /\ attempts_qty = 3
    /\ check_list = <<db>>
    /\ filter_list = <<>>
    /\ seen_running = {}
    /\ reloads[db] = 3
    /\ starts[db] = 1

\* The run is past the resolution phase.
PostResolution ==
    pc \in {"settle", "start", "finished"} \/ (pc = "crashed" /\ rpc.op = "reload")

\* C9: when no lookup returned a container, the dict is empty after
\* resolution, the settle loop runs no iteration (no reload, no sleep), no
\* container is started and the script ends with exit status 0; the step of
\* a lookup that found nothing logs the selector as skipped (a failed lookup
\* logs the error).
C9_NothingResolved ==
    /\ (PostResolution /\ returned = {}) =>
          /\ pc \in {"start", "finished"}
          /\ start_list = <<>>
          /\ reqs = 0
          /\ sleeps = 0
          /\ ops \cap {"reload", "start"} = {}
          /\ \A c \in ContainerNames : reloads[c] = 0 /\ starts[c] = 0
          /\ pc = "start" => ENABLED Finish
          /\ pc = "finished" => exit_status = <<0>>
    /\ (rpc.op = "get" /\ rpc.res = "not_found") =>
          log = << LogLine("warn", "Docker container is not found => skip", rpc.arg) >>
    /\ (rpc.op = "list" /\ rpc.res = "ok"
          /\ ~ \E c \in ContainerNames : <<"filter", rpc.arg, c>> \in returned) =>
          log = << LogLine("warn", "Docker containers are not found => skip", rpc.arg) >>
    /\ (rpc.op \in {"get", "list"} /\ rpc.res = "api_error") =>
          \E l \in Range(log) : l[1] = "error" /\ l[3] = rpc.arg

C9_Witness ==
    /\ pc = "finished"
    /\ check_list = <<api>>
    /\ filter_list = <<>>
    /\ returned = {}
    /\ start_list = <<>>
    /\ exit_status = <<0>>

\* C10: a start call that raises APIError logs the error and leaves the
\* script in the start loop; once a start call was made the script makes no
\* reload and no second start of a container; at the end every container of
\* the dict was started once and the exit status is 0, whichever starts
\* failed.
C10_StartBestEffort ==
    /\ (rpc.op = "start" /\ rpc.res = "api_error") =>
          /\ pc = "start"
          /\ LogLine("error", "Can't start container", rpc.arg) \in Range(log)
    /\ (\E c \in ContainerNames : starts[c] > 0) =>
          /\ pc \in {"start", "finished"}
          /\ \A c \in ContainerNames : starts[c] <= 1
    /\ failed_starts \subseteq { c \in ContainerNames : starts[c] = 1 }
    /\ pc = "finished" =>
          /\ exit_status = <<0>>
          /\ \A c \in KeySet(start_list) : starts[c] = 1

C10_Witness ==
    /\ pc = "finished"
    /\ Keys(start_list) = <<web, db>>
    /\ failed_starts = {web}
    /\ starts[web] = 1
    /\ starts[db] = 1
    /\ exit_status = <<0>>

\* C11: every selector of both option lists is looked up once, in order,
\* whatever the lookups before it returned (not found, no match, APIError);
\* during resolution the dict holds exactly the containers the successful
\* lookups returned, and so does the target set when resolution is over.
C11_SelectorsIsolated ==
    /\ [][ (pc = "resolve_exact" /\ j <= Len(check_list))
             => (rpc' = Rpc("get", check_list[j], rpc'.res)
                 /\ j' = j + 1 /\ pc' = "resolve_exact") ]_vars
    /\ [][ (pc = "resolve_exact" /\ j > Len(check_list))
             => (pc' = "resolve_filter" /\ j' = 1 /\ rpc' = NoRpc) ]_vars
    /\ [][ (pc = "resolve_filter" /\ j <= Len(filter_list))
             => (rpc' = Rpc("list", filter_list[j], rpc'.res)
                 /\ j' = j + 1 /\ pc' = "resolve_filter") ]_vars
    /\ [][ (pc \notin {"resolve_exact", "resolve_filter"} /\ pc' = "resolve_exact")
             => j' = 1 ]_vars
    /\ []( pc \in {"resolve_exact", "resolve_filter"} =>
              /\ KeySet(start_list) = Resolved
              /\ TargetSet = Resolved )
    /\ []( PostResolution => TargetSet = Resolved \ seen_running )

C11_Witness ==
    /\ pc = "settle"
    /\ reqs = 0
    /\ j = 1
    /\ seen_running = {}
    /\ check_list = <<api, db>>
    /\ filter_list = << <<"w","e">> >>
    /\ returned = { <<"exact", db, db>>, <<"filter", <<"w","e">>, web>> }
    /\ Keys(start_list) = <<db, web>>

\* The outcomes of a collaborator call that are failures.
FailureResults == {"error", "empty", "dbus_error", "not_found", "api_error"}

\* C12: the step of every collaborator call that fails (version, info, get,
\* list, reload, start, RestartUnit) emits a warning or error log line, also
\* when the failure ends the process.
C12_FailuresLogged ==
    rpc.res \in FailureResults =>
        \E l \in Range(log) : l[1] \in {"warn", "error"}

\* C13: a version request that returns a non-empty version ends the connect
\* loop: no request follows it, so it is request number reqs, made after
\* reqs - 1 failed requests each followed by a sleep, and connect returns the
\* handle; an empty version counts as a failure exactly as an exception
\* does, and connect returns the handle only after a non-empty version.
C13_ConnectSucceeds ==
    /\ pc = "connect" =>
          /\ "ok" \notin obs
          /\ reqs = i
          /\ sleeps = reqs
          /\ reqs < attempts_qty
    /\ (pc \in {"connect_ret", "verify"} /\ "ok" \in obs) =>
          /\ reqs \in 1..attempts_qty
          /\ sleeps = reqs - 1
          /\ Truthy(version)
          /\ pc = "connect_ret" => rpc = Rpc("version", <<>>, "ok")
    /\ pc = "verify" => (docker_client = "client" <=> "ok" \in obs)

C13_Witness ==
    /\ pc = "verify"
    /\ docker_client = "client"
    /\ attempts_qty = 5
    /\ obs = {"empty", "error", "ok"}
    /\ reqs = 3
    /\ sleeps = 2

\* An observation of the health loop that the spec calls healthy.
HealthyObs(c) == c[1] = 0 \/ (c[1] > 0 /\ c[2] > 0)

\* C14: while the health loop goes on every observation so far was
\* unhealthy; a healthy observation is the last query of the loop; the step
\* after the loop calls restart_docker exactly when the loop made all
\* attempts_qty queries and every observation was total > 0, running = 0.
C14_HealthDecision ==
    /\ []( pc = "health" =>
              /\ \A c \in obs : Unhealthy(c)
              /\ reqs = i
              /\ reqs < attempts_qty )
    /\ []( pc = "health_post" =>
              /\ reqs \in 1..attempts_qty
              /\ rpc.op = "info"
              /\ rpc.res \in obs
              /\ \A c \in obs \ {rpc.res} : Unhealthy(c)
              /\ Unhealthy(rpc.res) => reqs = attempts_qty )
    /\ [][ pc = "health_post" =>
              /\ rpc'.op = "restart" <=>
                    (reqs = attempts_qty /\ \A c \in obs : Unhealthy(c))
              /\ (\E c \in obs : HealthyObs(c)) =>
                    (pc' = "resolve_exact" /\ restarts' = restarts) ]_vars

C14_Witness ==
    /\ pc = "health_post"
    /\ attempts_qty = 4
    /\ reqs = 3
    /\ sleeps = 2
    /\ rpc.res = <<1, 1>>
    /\ obs = { <<1, 0>>, <<1, 1>> }

\* C15: when the last health observation is total > 0, running = 0, the next
\* step calls restart_docker and, whatever RestartUnit returned, starts a
\* second connect with the same attempts_qty; that connect is followed by
\* the gate without restart; there is no second health check, and when the
\* second connect returns the handle the gate passes on to resolution, whose
\* calls are made with the handle present.
C15_RestartThenReconnect ==
    /\ [][ (pc = "health_post" /\ qty > 0 /\ running_qty = 0) =>
              /\ rpc'.op = "restart"
              /\ rpc'.res \in RestartResults
              /\ restarts' = Append(restarts, "health")
              /\ pc' = "connect"
              /\ call' = 2
              /\ i' = 0
              /\ reqs' = 0
              /\ sleeps' = 0
              /\ attempts_qty' = attempts_qty ]_vars
    /\ [][ (pc = "verify" /\ call = 2) =>
              /\ rpc' = NoRpc
              /\ restarts' = restarts
              /\ pc' = IF docker_client = "None" THEN "exited" ELSE "resolve_exact" ]_vars
    /\ []( call = 2 =>
              /\ pc \notin {"health", "health_post"}
              /\ restarts = <<"health">>
              /\ ops \cap {"get", "list", "reload", "start"} # {} =>
                    docker_client = "client"
              /\ (pc = "verify" /\ "ok" \notin obs) =>
                    (reqs = attempts_qty /\ sleeps = attempts_qty - 1) )

C15_Witness ==
    /\ pc = "connect"
    /\ call = 2
    /\ rpc = Rpc("restart", <<>>, "dbus_error")
    /\ restarts = <<"health">>
    /\ reqs = 0
    /\ i = 0
    /\ attempts_qty = 3

\* C16: in the connect, health and settle loops a sleep is made only when
\* another iteration of the same loop follows: while a loop goes on it has
\* slept once per iteration made, and once it is over (all iterations made,
\* or ended early by a version, healthy counts or an empty dict) it has
\* slept one time less than it made iterations.
C16_SleepsBetweenIterations ==
    /\ pc \in {"connect", "health", "settle"} => sleeps = reqs
    /\ pc \in {"connect_ret", "verify", "health_post"} =>
          (reqs >= 1 /\ sleeps = reqs - 1)
    /\ (pc = "exited" \/ (pc = "crashed" /\ rpc.op = "info")) =>
          (reqs >= 1 /\ sleeps = reqs - 1)
    /\ pc \in {"start", "finished"} =>
          sleeps = IF reqs = 0 THEN 0 ELSE reqs - 1
    /\ reqs <= attempts_qty
    /\ sleeps <= attempts_qty - 1

C16_Witness ==
    /\ pc = "start"
    /\ attempts_qty = 3
    /\ reqs = 2
    /\ sleeps = 1
    /\ start_list = <<>>
    /\ seen_running = {web, db}

\* C17: once resolution is over, no step adds a name to the target set or to
\* the dict; a step takes a name out of the target set only by a reload that
\* reports that container as running, and the names that leave the dict are
\* names seen running.
C17_TargetSetShrinks ==
    [][ PostResolution =>
          /\ TargetSet' \subseteq TargetSet
          /\ KeySet(start_list') \subseteq KeySet(start_list)
          /\ \A c \in TargetSet \ TargetSet' :
                rpc' = Rpc("reload", c, "running")
          /\ KeySet(start_list) \ KeySet(start_list') \subseteq seen_running
          /\ returned' = returned ]_vars

C17_Witness ==
    /\ pc = "settle"
    /\ Resolved = {web, db}
    /\ seen_running = {web}
    /\ TargetSet = {db}
    /\ reqs = 1
    /\ j = 1

\* The script goes on as long as it has not ended: every collaborator call
\* returns or raises.
FairSpec == Spec /\ WF_vars(Next)

\* Every run of FairSpec ends.
Termination == <>Terminated

\* Upper bounds on the steps left: of one settle iteration or of the start
\* phase, from the end of resolution, from the start of resolution, from the
\* start of the second connect, from the start of the health loop.
PhaseSteps == Cardinality(ContainerNames) + 1
FromSettle == attempts_qty * PhaseSteps + PhaseSteps
FromResolve == Len(check_list) + 1 + Len(filter_list) + 1 + FromSettle
FromReconnect == attempts_qty + 2 + FromResolve
FromHealth == attempts_qty + 1 + FromReconnect
AfterGate == IF call = 2 THEN FromResolve ELSE FromHealth

\* An upper bound on the steps the script has left.
Measure ==
    CASE Terminated -> 0
      [] pc = "start" -> (Len(start_list) + 1 - j) + 1
      [] pc = "settle" ->
            (Len(start_list) + 1 - j) + 1
            + (attempts_qty - 1 - i) * PhaseSteps + PhaseSteps
      [] pc = "resolve_filter" -> (Len(filter_list) + 1 - j) + 1 + FromSettle
      [] pc = "resolve_exact" ->
            (Len(check_list) + 1 - j) + 1 + Len(filter_list) + 1 + FromSettle
      [] pc = "health_post" -> 1 + FromReconnect
      [] pc = "health" -> (attempts_qty - i) + 1 + FromReconnect
      [] pc = "verify" -> 1 + AfterGate
      [] pc = "connect_ret" -> 2 + AfterGate
      [] pc = "connect" -> (attempts_qty - i) + 2 + AfterGate

\* C18: every run ends, given that each call returns: a script that has not
\* ended can take a step, and every step lowers a bound on the steps left;
\* on the way each connect makes at most attempts_qty version requests,
\* there are at most two connects, the health loop makes at most
\* attempts_qty queries and is entered once, the settle loop makes at most
\* attempts_qty iterations, and only resolved containers are started, each
\* at most once.
C18_Terminates ==
    /\ [][ Measure' < Measure ]_vars
    /\ []( /\ Measure >= 0
           /\ Terminated \/ ENABLED Next
           /\ call \in 1..2
           /\ reqs <= attempts_qty
           /\ pc \in {"connect", "health", "settle"} =>
                 (i < attempts_qty /\ reqs < attempts_qty)
           /\ call = 2 => pc \notin {"health", "health_post"}
           /\ \A c \in ContainerNames :
                 /\ reloads[c] <= attempts_qty
                 /\ starts[c] <= 1
                 /\ starts[c] = 1 => c \in Resolved )

C18_Witness ==
    /\ pc = "finished"
    /\ call = 2
    /\ attempts_qty = 2
    /\ reqs = 2
    /\ reloads[web] = 2
    /\ starts[web] = 1
    /\ starts[db] = 1

\* C19: restart_docker is called at most once in a run, over the gate and
\* the health path together; a run that is past the health check with a
\* healthy last observation has called it not at all.
C19_AtMostOneRestart ==
    /\ Len(restarts) <= 1
    /\ restarts = <<"gate">> => (pc = "exited" /\ call = 1)
    /\ (pc \in {"resolve_exact", "resolve_filter", "settle", "start", "finished"}
          /\ HealthyObs(<<qty, running_qty>>)) =>
          (restarts = <<>> /\ call = 1)

C19_Witness ==
    /\ pc = "finished"
    /\ call = 1
    /\ qty = 1
    /\ running_qty = 1
    /\ restarts = <<>>
    /\ starts[web] = 1

\* The calls to the daemon that need the handle.
DaemonOps == {"info", "get", "list", "reload", "start"}

\* C20: a call of info, get, list, reload or start is made only with the
\* handle present and outside connect and gate; whenever connect has
\* returned None the script is at the gate or has ended there.
C20_NoCallWithoutHandle ==
    /\ rpc.op \in DaemonOps =>
          /\ docker_client = "client"
          /\ pc \notin {"connect", "connect_ret", "verify", "exited"}
    /\ docker_client = "None" => pc \in {"verify", "exited"}
    /\ pc \in {"health", "health_post", "resolve_exact", "resolve_filter",
               "settle", "start"} => docker_client = "client"
    /\ (call = 1 /\ pc \in {"connect", "connect_ret", "verify", "exited"}) =>
          ops = {}
    /\ (call = 2 /\ pc \in {"connect", "connect_ret", "verify", "exited"}) =>
          ops = {"info"}

C20_Witness ==
    /\ call = 2
    /\ pc = "settle"
    /\ rpc = Rpc("reload", web, "exited")
    /\ docker_client = "client"
    /\ ops = {"info", "get", "reload"}

====
